---- MODULE Spec2Model ----
(***************************************************************************)
(* kid-timer: the Redux Zero timer store (store/actions.ts, store/index.ts) *)
(* and its PubNub bridge (store/pubnub-integration.tsx), for a small group  *)
(* of browser clients sharing one channel.                                  *)
(*                                                                          *)
(* Times are milliseconds, as in the code.  Every client reads Date.now()   *)
(* as the global clock plus its own fixed skew.                             *)
(***************************************************************************)
EXTENDS Integers, FiniteSets, Sequences, TLC

\* ------------------------------------------------------------------ bounds
\* clock reading when the first page loads
T0 == 1000
\* the second client's clock may run this far ahead of the first one's
SkewMs == 400000
\* durationMs is not grown past this many minutes
MaxMinutes == 10
\* Spec: how often the wall clock advances, how many user commands are issued,
\* publish calls made, messages delivered a second time, connection status
\* events reported and transport calls failed
MaxAdvances == 1
MaxCommands == 2
MaxPublishes == 1
MaxDup == 0
MaxStatus == 1
MaxFailures == 1
\* SpecSync: the same budgets for two clients that are both connected
SyncAdvances == 1
SyncCommands == 2
SyncPublishes == 2
SyncDup == 1
\* SpecLocal: one client that is never connected: clock advances in steps
\* chosen freely (afterwards the clock only runs on to the end of a running
\* timer) and user commands
LocalAdvances == 2
LocalCommands == 3
\* SpecView: the component rendered with timers drawn from the values of the
\* timer's type, while the clock advances
ViewAdvances == 1
\* SpecLink: one client from its page load on, on a channel that connects,
\* disconnects and fails
LinkAdvances == 1
LinkCommands == 2
LinkPublishes == 3
LinkStatus == 3
LinkFailures == 1

\* SpecRestart: clock advances, Start / Pause / Restart presses, publishes
RestartAdvances == 1
RestartCommands == 3
RestartPublishes == 5

\* SpecSched: what is left of the run at the start, how far the wake-ups are
\* followed, how late a wake-up may fire, late wake-ups, button presses
SchedLeftMs == 3000
SchedAfterMs == 3000
LateMs == 950
SchedLate == 1
SchedCommands == 2

\* ------------------------------------------------------- program constants
SecondMs == 1000
MinuteMs == 60000
DefaultMinutes == 5

Clients == {1, 2}
\* steps by which the wall clock advances between events
Deltas == {SecondMs, DefaultMinutes * MinuteMs}
\* minute arguments the buttons pass to addTime / removeTime
ButtonMinutes == {1, 5}

\* JavaScript's null and undefined, kept apart from every timestamp
NULL == 0 - 1
UNDEFINED == 0 - 2

Max(a, b) == IF a >= b THEN a ELSE b
Min(a, b) == IF a <= b THEN a ELSE b

\* truthiness of a number | null | undefined
Truthy(x) == x # NULL /\ x # UNDEFINED /\ x # 0

\* ------------------------------------------------------------- the store

\* calculateComputedState with "complete" taken from the clock alone, whether
\* or not the timer is running
calculateCompleteWhileRunning(timer, currentTime) ==
    [timer EXCEPT
        !.isComplete = Truthy(timer.startTime) /\ Truthy(timer.endTime)
                       /\ currentTime >= timer.endTime,
        !.isPaused = ~timer.isRunning /\ timer.pausedRemainingMs # UNDEFINED
                     /\ timer.pausedRemainingMs # NULL]

\* Helper function to calculate computed states
calculateComputedState(timer, currentTime) ==
    [timer EXCEPT
        !.isComplete = ~timer.isRunning /\ Truthy(timer.startTime)
                       /\ Truthy(timer.endTime) /\ currentTime >= timer.endTime,
        !.isPaused = ~timer.isRunning /\ timer.pausedRemainingMs # UNDEFINED
                     /\ timer.pausedRemainingMs # NULL]

\* store/index.ts: the state the store is created with at Date.now() = now
initialState(now) ==
    [timer |-> [durationMs |-> DefaultMinutes * MinuteMs,
                startTime |-> NULL,
                endTime |-> NULL,
                isRunning |-> FALSE,
                pausedRemainingMs |-> UNDEFINED,
                lastUpdated |-> now,
                isComplete |-> FALSE,
                isPaused |-> FALSE],
     ui |-> [isConnected |-> FALSE,
             currentTime |-> now,
             lastUpdateFromPubNub |-> FALSE]]

\* as startTimer, but every start runs for the whole duration
startTimerFromDuration(state, now) ==
    [state EXCEPT !.timer = calculateComputedState(
        [state.timer EXCEPT !.isRunning = TRUE,
                            !.startTime = now,
                            !.endTime = now + state.timer.durationMs,
                            !.pausedRemainingMs = UNDEFINED,
                            !.lastUpdated = now],
        state.ui.currentTime)]

\* as startTimer, but the remaining time of the pause is kept in the state
startTimerKeepingPause(state, now) ==
    LET timeToRun == IF ~state.timer.isRunning
                        /\ state.timer.pausedRemainingMs # UNDEFINED
                     THEN state.timer.pausedRemainingMs
                     ELSE state.timer.durationMs
    IN [state EXCEPT !.timer = calculateComputedState(
            [state.timer EXCEPT !.isRunning = TRUE,
                                !.startTime = now,
                                !.endTime = now + timeToRun,
                                !.lastUpdated = now],
            state.ui.currentTime)]

startTimer(state, now) ==
    LET timeToRun == IF ~state.timer.isRunning
                        /\ state.timer.pausedRemainingMs # UNDEFINED
                     THEN state.timer.pausedRemainingMs
                     ELSE state.timer.durationMs
    IN [state EXCEPT !.timer = calculateComputedState(
            [state.timer EXCEPT !.isRunning = TRUE,
                                !.startTime = now,
                                !.endTime = now + timeToRun,
                                !.pausedRemainingMs = UNDEFINED,
                                !.lastUpdated = now],
            state.ui.currentTime)]

\* as pauseTimer, but the pause remembers the whole duration
pauseTimerKeepingDuration(state, now) ==
    [state EXCEPT !.timer = calculateComputedState(
        [state.timer EXCEPT !.startTime = NULL,
                            !.endTime = NULL,
                            !.isRunning = FALSE,
                            !.pausedRemainingMs = state.timer.durationMs,
                            !.lastUpdated = now],
        state.ui.currentTime)]

\* as pauseTimer, but the endTime of the run is left in the timer
pauseTimerKeepingEnd(state, now) ==
    LET remainingMs == IF state.timer.isRunning /\ Truthy(state.timer.endTime)
                       THEN Max(0, state.timer.endTime - now)
                       ELSE state.timer.durationMs
    IN [state EXCEPT !.timer = calculateComputedState(
            [state.timer EXCEPT !.startTime = NULL,
                                !.isRunning = FALSE,
                                !.pausedRemainingMs = remainingMs,
                                !.lastUpdated = now],
            state.ui.currentTime)]

pauseTimer(state, now) ==
    LET remainingMs == IF state.timer.isRunning /\ Truthy(state.timer.endTime)
                       THEN Max(0, state.timer.endTime - now)
                       ELSE state.timer.durationMs
    IN [state EXCEPT !.timer = calculateComputedState(
            [state.timer EXCEPT !.startTime = NULL,
                                !.endTime = NULL,
                                !.isRunning = FALSE,
                                !.pausedRemainingMs = remainingMs,
                                !.lastUpdated = now],
            state.ui.currentTime)]

\* as resetTimer, but a remembered pause survives the reset
resetTimerKeepingPause(state, initialMinutes, now) ==
    [state EXCEPT !.timer = calculateComputedState(
        [durationMs |-> initialMinutes * MinuteMs,
         startTime |-> NULL,
         endTime |-> NULL,
         isRunning |-> FALSE,
         pausedRemainingMs |-> state.timer.pausedRemainingMs,
         lastUpdated |-> now,
         isComplete |-> FALSE,
         isPaused |-> FALSE],
        state.ui.currentTime)]

resetTimer(state, initialMinutes, now) ==
    [state EXCEPT !.timer =
        [durationMs |-> initialMinutes * MinuteMs,
         startTime |-> NULL,
         endTime |-> NULL,
         isRunning |-> FALSE,
         pausedRemainingMs |-> UNDEFINED,
         lastUpdated |-> now,
         isComplete |-> FALSE,
         isPaused |-> FALSE]]

\* as addTime, but a running timer keeps the end it had
addTimeDurationOnly(state, minutes, now) ==
    LET additionalMs == minutes * MinuteMs
        newDurationMs == state.timer.durationMs + additionalMs
        t0 == [state.timer EXCEPT !.durationMs = newDurationMs]
        t1 == IF state.timer.isRunning /\ Truthy(state.timer.startTime)
                 /\ Truthy(state.timer.endTime)
              THEN t0
              ELSE IF state.timer.isComplete
              THEN [t0 EXCEPT !.startTime = NULL, !.endTime = NULL,
                              !.isRunning = FALSE,
                              !.pausedRemainingMs = UNDEFINED]
              ELSE IF state.timer.pausedRemainingMs # UNDEFINED
              THEN [t0 EXCEPT !.pausedRemainingMs =
                                  state.timer.pausedRemainingMs + additionalMs]
              ELSE t0
    IN [state EXCEPT !.timer =
            calculateComputedState([t1 EXCEPT !.lastUpdated = now],
                                   state.ui.currentTime)]

\* as addTime, but a paused timer keeps the remaining time it had
addTimePausedUnchanged(state, minutes, now) ==
    LET additionalMs == minutes * MinuteMs
        newDurationMs == state.timer.durationMs + additionalMs
        t0 == [state.timer EXCEPT !.durationMs = newDurationMs]
        t1 == IF state.timer.isRunning /\ Truthy(state.timer.startTime)
                 /\ Truthy(state.timer.endTime)
              THEN [t0 EXCEPT !.endTime = state.timer.endTime + additionalMs]
              ELSE IF state.timer.isComplete
              THEN [t0 EXCEPT !.startTime = NULL, !.endTime = NULL,
                              !.isRunning = FALSE,
                              !.pausedRemainingMs = UNDEFINED]
              ELSE t0
    IN [state EXCEPT !.timer =
            calculateComputedState([t1 EXCEPT !.lastUpdated = now],
                                   state.ui.currentTime)]

addTime(state, minutes, now) ==
    LET additionalMs == minutes * MinuteMs
        newDurationMs == state.timer.durationMs + additionalMs
        t0 == [state.timer EXCEPT !.durationMs = newDurationMs]
        t1 == IF state.timer.isRunning /\ Truthy(state.timer.startTime)
                 /\ Truthy(state.timer.endTime)
              THEN [t0 EXCEPT !.endTime = state.timer.endTime + additionalMs]
              ELSE IF state.timer.isComplete
              THEN [t0 EXCEPT !.startTime = NULL, !.endTime = NULL,
                              !.isRunning = FALSE,
                              !.pausedRemainingMs = UNDEFINED]
              ELSE IF state.timer.pausedRemainingMs # UNDEFINED
              THEN [t0 EXCEPT !.pausedRemainingMs =
                                  state.timer.pausedRemainingMs + additionalMs]
              ELSE t0
    IN [state EXCEPT !.timer =
            calculateComputedState([t1 EXCEPT !.lastUpdated = now],
                                   state.ui.currentTime)]

\* as removeTime, but the new duration is not held at one minute
removeTimeUnfloored(state, minutes, now) ==
    LET reductionMs == minutes * MinuteMs
        newDurationMs == state.timer.durationMs - reductionMs
        maxReduction == state.timer.endTime - now - SecondMs
        actualReduction == Min(reductionMs, Max(0, maxReduction))
        t0 == [state.timer EXCEPT !.durationMs = newDurationMs]
        t1 == IF state.timer.isRunning /\ Truthy(state.timer.startTime)
                 /\ Truthy(state.timer.endTime)
              THEN [t0 EXCEPT !.endTime = state.timer.endTime - actualReduction]
              ELSE IF state.timer.isComplete
              THEN [t0 EXCEPT !.startTime = NULL, !.endTime = NULL,
                              !.isRunning = FALSE,
                              !.pausedRemainingMs = UNDEFINED]
              ELSE IF state.timer.pausedRemainingMs # UNDEFINED
              THEN [t0 EXCEPT !.pausedRemainingMs =
                        Max(MinuteMs, state.timer.pausedRemainingMs - reductionMs)]
              ELSE t0
    IN [state EXCEPT !.timer =
            calculateComputedState([t1 EXCEPT !.lastUpdated = now],
                                   state.ui.currentTime)]

\* as removeTime, but a running timer's end is reduced by the full amount
removeTimeUnclamped(state, minutes, now) ==
    LET reductionMs == minutes * MinuteMs
        newDurationMs == Max(MinuteMs, state.timer.durationMs - reductionMs)
        t0 == [state.timer EXCEPT !.durationMs = newDurationMs]
        t1 == IF state.timer.isRunning /\ Truthy(state.timer.startTime)
                 /\ Truthy(state.timer.endTime)
              THEN [t0 EXCEPT !.endTime = state.timer.endTime - reductionMs]
              ELSE IF state.timer.isComplete
              THEN [t0 EXCEPT !.startTime = NULL, !.endTime = NULL,
                              !.isRunning = FALSE,
                              !.pausedRemainingMs = UNDEFINED]
              ELSE IF state.timer.pausedRemainingMs # UNDEFINED
              THEN [t0 EXCEPT !.pausedRemainingMs =
                        Max(MinuteMs, state.timer.pausedRemainingMs - reductionMs)]
              ELSE t0
    IN [state EXCEPT !.timer =
            calculateComputedState([t1 EXCEPT !.lastUpdated = now],
                                   state.ui.currentTime)]

removeTime(state, minutes, now) ==
    LET reductionMs == minutes * MinuteMs
        newDurationMs == Max(MinuteMs, state.timer.durationMs - reductionMs)
        maxReduction == state.timer.endTime - now - SecondMs
        actualReduction == Min(reductionMs, Max(0, maxReduction))
        t0 == [state.timer EXCEPT !.durationMs = newDurationMs]
        t1 == IF state.timer.isRunning /\ Truthy(state.timer.startTime)
                 /\ Truthy(state.timer.endTime)
              THEN [t0 EXCEPT !.endTime = state.timer.endTime - actualReduction]
              ELSE IF state.timer.isComplete
              THEN [t0 EXCEPT !.startTime = NULL, !.endTime = NULL,
                              !.isRunning = FALSE,
                              !.pausedRemainingMs = UNDEFINED]
              ELSE IF state.timer.pausedRemainingMs # UNDEFINED
              THEN [t0 EXCEPT !.pausedRemainingMs =
                        Max(MinuteMs, state.timer.pausedRemainingMs - reductionMs)]
              ELSE t0
    IN [state EXCEPT !.timer =
            calculateComputedState([t1 EXCEPT !.lastUpdated = now],
                                   state.ui.currentTime)]

\* syncTimerState counting each application as a new version of the state
syncTimerStateCounting(state, timerState) ==
    [state EXCEPT !.timer = calculateComputedState(
        [durationMs |-> timerState.durationMs,
         startTime |-> timerState.startTime,
         endTime |-> timerState.endTime,
         isRunning |-> timerState.isRunning,
         pausedRemainingMs |-> IF timerState.pausedRemainingMs = NULL
                               THEN UNDEFINED
                               ELSE timerState.pausedRemainingMs,
         lastUpdated |-> Max(timerState.lastUpdated,
                             state.timer.lastUpdated + 1),
         isComplete |-> FALSE,
         isPaused |-> FALSE],
        state.ui.currentTime)]

\* as syncTimerState, but the flags the store held are left as they are
syncTimerStateKeepingFlags(state, timerState) ==
    [state EXCEPT !.timer =
        [durationMs |-> timerState.durationMs,
         startTime |-> timerState.startTime,
         endTime |-> timerState.endTime,
         isRunning |-> timerState.isRunning,
         pausedRemainingMs |-> IF timerState.pausedRemainingMs = NULL
                               THEN UNDEFINED
                               ELSE timerState.pausedRemainingMs,
         lastUpdated |-> timerState.lastUpdated,
         isComplete |-> state.timer.isComplete,
         isPaused |-> state.timer.isPaused]]

syncTimerState(state, timerState) ==
    [state EXCEPT !.timer = calculateComputedState(
        [durationMs |-> timerState.durationMs,
         startTime |-> timerState.startTime,
         endTime |-> timerState.endTime,
         isRunning |-> timerState.isRunning,
         pausedRemainingMs |-> IF timerState.pausedRemainingMs = NULL
                               THEN UNDEFINED
                               ELSE timerState.pausedRemainingMs,
         lastUpdated |-> timerState.lastUpdated,
         isComplete |-> FALSE,
         isPaused |-> FALSE],
        state.ui.currentTime)]

setConnected(state, isConnected) ==
    [state EXCEPT !.ui.isConnected = isConnected]

\* as updateCurrentTime, but the stop drops the run's start and end
updateCurrentTimeClearingRun(state, currentTime) ==
    LET autoStop == state.timer.isRunning /\ Truthy(state.timer.endTime)
                    /\ currentTime >= state.timer.endTime
        stopped == calculateComputedState(
                       [state.timer EXCEPT !.isRunning = FALSE,
                                           !.startTime = NULL,
                                           !.endTime = NULL,
                                           !.lastUpdated = currentTime],
                       currentTime)
        computedTimer == calculateComputedState(state.timer, currentTime)
    IN [state EXCEPT
          !.ui.currentTime = currentTime,
          !.timer = IF autoStop THEN stopped
                    ELSE IF computedTimer.isComplete # state.timer.isComplete
                            \/ computedTimer.isPaused # state.timer.isPaused
                    THEN computedTimer
                    ELSE state.timer]

\* as updateCurrentTime, but a running timer is never stopped at its end
updateCurrentTimeNeverStopping(state, currentTime) ==
    LET computedTimer == calculateComputedState(state.timer, currentTime)
    IN [state EXCEPT
          !.ui.currentTime = currentTime,
          !.timer = IF computedTimer.isComplete # state.timer.isComplete
                       \/ computedTimer.isPaused # state.timer.isPaused
                    THEN computedTimer
                    ELSE state.timer]

updateCurrentTime(state, currentTime) ==
    LET autoStop == state.timer.isRunning /\ Truthy(state.timer.endTime)
                    /\ currentTime >= state.timer.endTime
        stopped == calculateComputedState(
                       [state.timer EXCEPT !.isRunning = FALSE,
                                           !.lastUpdated = currentTime],
                       currentTime)
        computedTimer == calculateComputedState(state.timer, currentTime)
    IN [state EXCEPT
          !.ui.currentTime = currentTime,
          !.timer = IF autoStop THEN stopped
                    ELSE IF computedTimer.isComplete # state.timer.isComplete
                            \/ computedTimer.isPaused # state.timer.isPaused
                    THEN computedTimer
                    ELSE state.timer]

\* ------------------------------------------------ the view (TimerComponent)

\* Math.ceil(a / b) for a >= 0, b > 0
Ceil(a, b) == (a + b - 1) \div b

\* as remainingMs, but a complete timer shows 0 before a stored pause is
\* looked at
remainingMsCompleteFirst(timer, now) ==
    IF timer.isRunning /\ Truthy(timer.endTime)
    THEN Max(0, timer.endTime - now)
    ELSE IF timer.isComplete
    THEN 0
    ELSE IF timer.pausedRemainingMs # UNDEFINED /\ timer.pausedRemainingMs # NULL
    THEN timer.pausedRemainingMs
    ELSE timer.durationMs

remainingMs(timer, now) ==
    IF timer.isRunning /\ Truthy(timer.endTime)
    THEN Max(0, timer.endTime - now)
    ELSE IF timer.pausedRemainingMs # UNDEFINED /\ timer.pausedRemainingMs # NULL
    THEN timer.pausedRemainingMs
    ELSE IF timer.isComplete
    THEN 0
    ELSE timer.durationMs

\* as remainingSeconds, but broken seconds are rounded down
remainingSecondsFloor(timer, now) ==
    IF remainingMs(timer, now) <= 0
    THEN 0
    ELSE remainingMs(timer, now) \div SecondMs

remainingSeconds(timer, now) ==
    IF remainingMs(timer, now) <= 0
    THEN 0
    ELSE Max(1, Ceil(remainingMs(timer, now), SecondMs))

totalSeconds(timer) == timer.durationMs \div SecondMs

\* --------------------------------------------------------------- the state

VARIABLES
    clock,              \* wall clock of the first client
    skew,               \* skew[c]: offset of client c's Date.now() from clock
    scheduler,          \* scheduler[c]: the scheduling effect of client c
    mounted,            \* mounted[c]: the page of client c is loaded
    store,              \* store[c]: the Redux Zero AppState of client c
    listenerTimer,      \* the timer prop the init effect's listener closed over
    lastPublishedState, \* ref: snapshot of the last publish that succeeded
    isInitialized,      \* ref
    hasLoadedHistory,   \* ref
    historyReq,         \* "idle" | "pending" | "done": the pubnub.history call
    initTimeout,        \* the setTimeout(..., 0) of the history handler is pending
    restartTimeout,     \* the setTimeout(startTimer, 0) of handleRestart is pending
    effectDeps,         \* dependencies of the publish effect at its last run
    publishing,         \* publish calls whose promise is not settled yet
    channelHistory,     \* the message pubnub.history(count: 1) would return
    inbox,              \* inbox[c]: messages the channel still has to deliver to c
    budget,             \* what is left of each bound
    lastRemote,         \* lastRemote[c]: the remote snapshot c's timer comes from
    maxStamp            \* greatest lastUpdated the channel has stored

vars == <<clock, skew, scheduler, mounted, store, listenerTimer, lastPublishedState,
          isInitialized, hasLoadedHistory, historyReq, initTimeout,
          restartTimeout, effectDeps, publishing, channelHistory, inbox,
          budget, lastRemote, maxStamp>>

\* the scheduling effect before its first run: no wake-up armed, no closure.
\* The wake-ups are followed one by one in SpecSched; the other specifications
\* stand for them with Tick.
Unscheduled ==
    [pending |-> 0, nextUpdateMs |-> NULL, due |-> NULL,
     isRunning |-> FALSE, endTime |-> NULL, listening |-> FALSE]

\* scheduleNextUpdate: the delay of the wake-up it arms, computed from the
\* isRunning and endTime its closure sees and the present Date.now()
nextUpdateMs(isRunning, endTime, now) ==
    IF isRunning /\ Truthy(endTime)
    THEN IF Max(0, endTime - now) > 0
         THEN Max(100, Max(0, endTime - now)
                       - (Ceil(Max(0, endTime - now), SecondMs) - 1) * SecondMs)
         ELSE 0
    ELSE SecondMs

\* as cleanup, but the pending wake-up is left armed
cleanupKeepingTimeout(s) == s

\* the cleanup of the scheduling effect: if (timeoutId) clearTimeout(timeoutId)
cleanup(s) ==
    [s EXCEPT !.pending = IF @ > 0 THEN @ - 1 ELSE 0]

\* scheduleNextUpdate's setTimeout at time now, by a closure that sees
\* isRunning and endTime; s is the effect's state before the call
arm(s, isRunning, endTime, now) ==
    [s EXCEPT !.pending = @ + 1,
              !.nextUpdateMs = nextUpdateMs(isRunning, endTime, now),
              !.due = now + nextUpdateMs(isRunning, endTime, now),
              !.isRunning = isRunning,
              !.endTime = endTime]

\* Date.now() on client c
Now(c) == clock + skew[c]

\* "no snapshot": lastPublishedState.current = null, an empty history
NoState == [lastUpdated |-> NULL]

\* the dependency array of the publish effect
publishDeps(state) ==
    <<state.timer.durationMs, state.timer.startTime, state.timer.endTime,
      state.timer.isRunning, state.timer.pausedRemainingMs,
      state.ui.isConnected, state.ui.lastUpdateFromPubNub>>

stateChanged(last, timer) ==
    \/ last = NoState
    \/ last.durationMs # timer.durationMs
    \/ last.startTime # timer.startTime
    \/ last.endTime # timer.endTime
    \/ last.isRunning # timer.isRunning
    \/ last.pausedRemainingMs # timer.pausedRemainingMs

\* as stateToPublish, but with || in place of ??: a remaining time of 0 is
\* sent as null
stateToPublishDroppingZero(timer) ==
    [durationMs |-> timer.durationMs,
     startTime |-> timer.startTime,
     endTime |-> timer.endTime,
     isRunning |-> timer.isRunning,
     pausedRemainingMs |-> IF timer.pausedRemainingMs = UNDEFINED
                              \/ timer.pausedRemainingMs = NULL
                              \/ timer.pausedRemainingMs = 0
                           THEN NULL
                           ELSE timer.pausedRemainingMs,
     lastUpdated |-> timer.lastUpdated]

stateToPublish(timer) ==
    [durationMs |-> timer.durationMs,
     startTime |-> timer.startTime,
     endTime |-> timer.endTime,
     isRunning |-> timer.isRunning,
     pausedRemainingMs |-> IF timer.pausedRemainingMs = UNDEFINED
                              \/ timer.pausedRemainingMs = NULL
                           THEN NULL
                           ELSE timer.pausedRemainingMs,
     lastUpdated |-> timer.lastUpdated]

\* the publish effect guarded by the connection alone
mayPublishWhenConnected(state, initialized, loaded) ==
    /\ state.ui.isConnected
    /\ ~state.ui.lastUpdateFromPubNub

\* the guards in front of the publish effect's body
mayPublish(state, initialized, loaded) ==
    /\ state.ui.isConnected
    /\ initialized
    /\ loaded
    /\ ~state.ui.lastUpdateFromPubNub

\* the listener's recency test, on the timer prop it closed over
isNewer(timer, newState) ==
    newState.lastUpdated > timer.lastUpdated

\* Client 1 loaded its page at T0, was reported connected and then had its
\* history request answered "no messages"; that was a second ago.  Client 2
\* has not opened the page yet; its clock agrees with client 1's.
Init ==
    /\ clock = T0 + SecondMs
    /\ skew = [c \in Clients |-> 0]
    /\ scheduler = [c \in Clients |-> Unscheduled]
    /\ mounted = [c \in Clients |-> c = 1]
    /\ store = [c \in Clients |->
                   IF c = 1
                   THEN updateCurrentTime(setConnected(initialState(T0), TRUE),
                                          clock)
                   ELSE initialState(T0)]
    /\ listenerTimer = [c \in Clients |-> initialState(T0).timer]
    /\ lastPublishedState = [c \in Clients |-> NoState]
    /\ isInitialized = [c \in Clients |-> c = 1]
    /\ hasLoadedHistory = [c \in Clients |-> c = 1]
    /\ historyReq = [c \in Clients |-> IF c = 1 THEN "done" ELSE "idle"]
    /\ initTimeout = [c \in Clients |-> FALSE]
    /\ restartTimeout = [c \in Clients |-> FALSE]
    /\ effectDeps = [c \in Clients |-> publishDeps(store[c])]
    /\ publishing = {}
    /\ channelHistory = NoState
    /\ inbox = [c \in Clients |-> {}]
    /\ budget = [advances |-> MaxAdvances, commands |-> MaxCommands,
                 publishes |-> MaxPublishes, dups |-> MaxDup,
                 status |-> MaxStatus, failures |-> MaxFailures]
    /\ lastRemote = [c \in Clients |-> NoState]
    /\ maxStamp = 0

\* both pages loaded at T0, both clients connected, both history requests
\* answered "no messages", one second later
InitSync ==
    /\ clock = T0 + SecondMs
    /\ skew \in {[c \in Clients |-> IF c = 1 THEN 0 ELSE x] : x \in {0, SkewMs}}
    /\ scheduler = [c \in Clients |-> Unscheduled]
    /\ mounted = [c \in Clients |-> TRUE]
    /\ store = [c \in Clients |->
                   updateCurrentTime(
                       setConnected(initialState(T0 + skew[c]), TRUE),
                       clock + skew[c])]
    /\ listenerTimer = [c \in Clients |-> initialState(T0 + skew[c]).timer]
    /\ lastPublishedState = [c \in Clients |-> NoState]
    /\ isInitialized = [c \in Clients |-> TRUE]
    /\ hasLoadedHistory = [c \in Clients |-> TRUE]
    /\ historyReq = [c \in Clients |-> "done"]
    /\ initTimeout = [c \in Clients |-> FALSE]
    /\ restartTimeout = [c \in Clients |-> FALSE]
    /\ effectDeps = [c \in Clients |-> publishDeps(store[c])]
    /\ publishing = {}
    /\ channelHistory = NoState
    /\ inbox = [c \in Clients |-> {}]
    /\ budget = [advances |-> SyncAdvances, commands |-> SyncCommands,
                 publishes |-> SyncPublishes, dups |-> SyncDup,
                 status |-> 0, failures |-> 0]
    /\ lastRemote = [c \in Clients |-> NoState]
    /\ maxStamp = 0

\* ------------------------------------------------------------- the actions

\* no render is waiting for its publish effect: Preact runs a render's effects
\* before the next event from outside is handled; only a zero-delay timeout
\* may come in between
Quiet == \A c \in Clients : mounted[c] => publishDeps(store[c]) = effectDeps[c]

\* the scheduler has nothing to do on client c at the present clock reading
Ticked(c) == updateCurrentTime(store[c], Now(c)) = store[c]

refVars == <<listenerTimer, lastPublishedState, isInitialized, hasLoadedHistory>>
channelVars == <<publishing, channelHistory, inbox, maxStamp>>

\* the wall clock advances, once every scheduler has caught up
Advance ==
    /\ Quiet
    /\ budget.advances > 0
    /\ \A c \in Clients : mounted[c] => Ticked(c)
    /\ \E d \in Deltas : clock' = clock + d
    /\ budget' = [budget EXCEPT !.advances = @ - 1]
    /\ UNCHANGED <<skew, scheduler, mounted, store, historyReq, initTimeout,
                   restartTimeout, effectDeps, lastRemote>>
    /\ UNCHANGED refVars
    /\ UNCHANGED channelVars

\* main.tsx: the page of client c loads: the store is created, the first render
\* runs the effects of PubNubIntegrationComponent (listener, subscribe, history
\* request; the publish effect returns at once: not connected)
Mount(c) ==
    /\ Quiet
    /\ ~mounted[c]
    /\ mounted' = [mounted EXCEPT ![c] = TRUE]
    /\ store' = [store EXCEPT ![c] = initialState(Now(c))]
    /\ listenerTimer' = [listenerTimer EXCEPT ![c] = initialState(Now(c)).timer]
    /\ effectDeps' = [effectDeps EXCEPT ![c] = publishDeps(initialState(Now(c)))]
    /\ historyReq' = [historyReq EXCEPT ![c] = "pending"]
    /\ UNCHANGED <<clock, skew, scheduler, lastPublishedState, isInitialized,
                   hasLoadedHistory, initTimeout, restartTimeout, budget,
                   lastRemote>>
    /\ UNCHANGED channelVars

\* a transition of client c's store that does not come from the channel
Local(c, next) ==
    /\ mounted[c]
    /\ store' = [store EXCEPT ![c] = next]
    /\ lastRemote' = [lastRemote EXCEPT
           ![c] = IF stateToPublish(next.timer) = stateToPublish(store[c].timer)
                  THEN @ ELSE NoState]
    /\ UNCHANGED <<clock, skew, scheduler, mounted, historyReq, initTimeout, effectDeps>>
    /\ UNCHANGED refVars
    /\ UNCHANGED channelVars

\* a user command on client c
Command(c, next) ==
    /\ Quiet
    /\ budget.commands > 0
    /\ budget' = [budget EXCEPT !.commands = @ - 1]
    /\ Local(c, next)

\* the Start button: shown when neither complete nor running, disabled at 0:00
Start(c) ==
    /\ ~store[c].timer.isComplete
    /\ ~store[c].timer.isRunning
    /\ remainingSeconds(store[c].timer, Now(c)) # 0
    /\ Command(c, startTimer(store[c], Now(c)))
    /\ UNCHANGED restartTimeout

\* the Pause button: shown while running
Pause(c) ==
    /\ ~store[c].timer.isComplete
    /\ store[c].timer.isRunning
    /\ Command(c, pauseTimer(store[c], Now(c)))
    /\ UNCHANGED restartTimeout

\* the Reset button: handleReset
Reset(c) ==
    /\ Command(c, resetTimer(store[c], DefaultMinutes, Now(c)))
    /\ UNCHANGED restartTimeout

\* the Restart button, shown when complete: handleRestart resets to the current
\* duration and defers startTimer with setTimeout(..., 0)
Restart(c) ==
    /\ store[c].timer.isComplete
    /\ Command(c, resetTimer(store[c], store[c].timer.durationMs \div MinuteMs,
                             Now(c)))
    /\ restartTimeout' = [restartTimeout EXCEPT ![c] = TRUE]

\* the deferred startTimer of handleRestart
RestartStart(c) ==
    /\ restartTimeout[c]
    /\ restartTimeout' = [restartTimeout EXCEPT ![c] = FALSE]
    /\ Local(c, startTimer(store[c], Now(c)))
    /\ UNCHANGED budget

\* the +1 / +5 buttons, disabled when complete
AddTime(c) ==
    /\ ~store[c].timer.isComplete
    /\ \E m \in ButtonMinutes :
        /\ store[c].timer.durationMs + m * MinuteMs <= MaxMinutes * MinuteMs
        /\ Command(c, addTime(store[c], m, Now(c)))
    /\ UNCHANGED restartTimeout

\* the -1 / -5 buttons, disabled when complete or at the minimum
RemoveTime(c) ==
    /\ ~store[c].timer.isComplete
    /\ \E m \in ButtonMinutes :
        /\ totalSeconds(store[c].timer) > m * 60
        /\ Command(c, removeTime(store[c], m, Now(c)))
    /\ UNCHANGED restartTimeout

\* scheduleNextUpdate: a wake-up of the scheduler that has something to do
Tick(c) ==
    /\ Quiet
    /\ mounted[c]
    /\ ~Ticked(c)
    /\ Local(c, updateCurrentTime(store[c], Now(c)))
    /\ UNCHANGED <<restartTimeout, budget>>

\* listener.status: the channel reports connected / network down
Status(c) ==
    /\ Quiet
    /\ mounted[c]
    /\ budget.status > 0
    /\ budget' = [budget EXCEPT !.status = @ - 1]
    /\ store' = [store EXCEPT
                    ![c] = setConnected(store[c], ~store[c].ui.isConnected)]
    /\ UNCHANGED <<clock, skew, scheduler, mounted, historyReq, initTimeout,
                   restartTimeout, effectDeps, lastRemote>>
    /\ UNCHANGED refVars
    /\ UNCHANGED channelVars

\* what handing snapshot m to client c through syncTimerState leaves behind
Synced(c, m, applied) ==
    /\ store' = [store EXCEPT ![c] = IF applied
                                     THEN syncTimerState(store[c], m)
                                     ELSE store[c]]
    /\ lastRemote' = [lastRemote EXCEPT
           ![c] = IF applied /\ stateToPublish(syncTimerState(store[c], m).timer)
                                # stateToPublish(store[c].timer)
                  THEN m ELSE @]

\* listener.message: the channel delivers m to client c; with keep it will
\* deliver m once more
DeliverMsg(c, m, keep) ==
    /\ Quiet
    /\ mounted[c]
    /\ m \in inbox[c]
    /\ Synced(c, m, isNewer(listenerTimer[c], m))
    /\ IF keep
       THEN /\ budget.dups > 0
            /\ budget' = [budget EXCEPT !.dups = @ - 1]
            /\ inbox' = inbox
       ELSE /\ inbox' = [inbox EXCEPT ![c] = inbox[c] \ {m}]
            /\ budget' = budget
    /\ UNCHANGED <<clock, skew, scheduler, mounted, historyReq, initTimeout,
                   restartTimeout, effectDeps, publishing, channelHistory,
                   maxStamp>>
    /\ UNCHANGED refVars

Deliver(c) == \E m \in inbox[c], keep \in BOOLEAN : DeliverMsg(c, m, keep)

\* pubnub.history(...).then: the most recent message, or none
HistoryResponse(c) ==
    /\ Quiet
    /\ historyReq[c] = "pending"
    /\ historyReq' = [historyReq EXCEPT ![c] = "done"]
    /\ IF channelHistory # NoState
       THEN /\ Synced(c, channelHistory, TRUE)
            /\ initTimeout' = [initTimeout EXCEPT ![c] = TRUE]
            /\ UNCHANGED <<isInitialized, hasLoadedHistory>>
       ELSE /\ hasLoadedHistory' = [hasLoadedHistory EXCEPT ![c] = TRUE]
            /\ isInitialized' = [isInitialized EXCEPT ![c] = TRUE]
                    /\ UNCHANGED <<store, initTimeout, lastRemote>>
    /\ UNCHANGED <<clock, skew, scheduler, mounted, restartTimeout, listenerTimer,
                   lastPublishedState, effectDeps, budget>>
    /\ UNCHANGED channelVars

\* pubnub.history(...).catch
HistoryError(c) ==
    /\ Quiet
    /\ historyReq[c] = "pending"
    /\ budget.failures > 0
    /\ budget' = [budget EXCEPT !.failures = @ - 1]
    /\ historyReq' = [historyReq EXCEPT ![c] = "done"]
    /\ hasLoadedHistory' = [hasLoadedHistory EXCEPT ![c] = TRUE]
    /\ isInitialized' = [isInitialized EXCEPT ![c] = TRUE]
    /\ UNCHANGED <<clock, skew, scheduler, mounted, store, restartTimeout, listenerTimer,
                   lastPublishedState, initTimeout, effectDeps, lastRemote>>
    /\ UNCHANGED channelVars

\* the setTimeout(..., 0) callback of the history handler
InitTimeout(c) ==
    /\ initTimeout[c]
    /\ initTimeout' = [initTimeout EXCEPT ![c] = FALSE]
    /\ hasLoadedHistory' = [hasLoadedHistory EXCEPT ![c] = TRUE]
    /\ isInitialized' = [isInitialized EXCEPT ![c] = TRUE]
    /\ UNCHANGED <<clock, skew, scheduler, mounted, store, restartTimeout, listenerTimer,
                   lastPublishedState, historyReq, effectDeps, budget,
                   lastRemote>>
    /\ UNCHANGED channelVars

\* a render whose publish-effect dependencies changed: the effect runs
PublishEffect(c) ==
    /\ mounted[c]
    /\ publishDeps(store[c]) # effectDeps[c]
    /\ effectDeps' = [effectDeps EXCEPT ![c] = publishDeps(store[c])]
    /\ IF mayPublish(store[c], isInitialized[c], hasLoadedHistory[c])
          /\ stateChanged(lastPublishedState[c], store[c].timer)
       THEN /\ budget.publishes > 0
            /\ budget' = [budget EXCEPT !.publishes = @ - 1]
            /\ publishing' = publishing \cup
                   {[from |-> c,
                     message |-> stateToPublish(store[c].timer),
                     echo |-> stateToPublish(store[c].timer) = lastRemote[c]]}
       ELSE UNCHANGED <<budget, publishing>>
    /\ UNCHANGED <<clock, skew, scheduler, mounted, store, historyReq, initTimeout,
                   restartTimeout, channelHistory, inbox, lastRemote, maxStamp>>
    /\ UNCHANGED refVars

\* publish(...).then: the channel stored the message and fans it out to every
\* subscriber, the publisher included
PublishResolved(c) ==
    /\ Quiet
    /\ \E p \in publishing :
        /\ p.from = c
        /\ publishing' = publishing \ {p}
        /\ lastPublishedState' = [lastPublishedState EXCEPT ![c] = p.message]
        /\ channelHistory' = p.message
        /\ maxStamp' = Max(maxStamp, p.message.lastUpdated)
        /\ inbox' = [d \in Clients |-> IF mounted[d]
                                       THEN inbox[d] \cup {p.message}
                                       ELSE inbox[d]]
    /\ UNCHANGED <<clock, skew, scheduler, mounted, store, listenerTimer, isInitialized,
                   hasLoadedHistory, historyReq, initTimeout, restartTimeout,
                   effectDeps, budget, lastRemote>>

\* as PublishRejected, but the failed snapshot is recorded as published
PublishRejectedRecording(c) ==
    /\ Quiet
    /\ budget.failures > 0
    /\ budget' = [budget EXCEPT !.failures = @ - 1]
    /\ \E p \in publishing :
        /\ p.from = c
        /\ publishing' = publishing \ {p}
        /\ lastPublishedState' = [lastPublishedState EXCEPT ![c] = p.message]
    /\ UNCHANGED <<clock, skew, scheduler, mounted, store, historyReq, initTimeout,
                   restartTimeout, effectDeps, channelHistory, inbox,
                   lastRemote, maxStamp>>
    /\ UNCHANGED <<listenerTimer, isInitialized, hasLoadedHistory>>

\* publish(...).catch
PublishRejected(c) ==
    /\ Quiet
    /\ budget.failures > 0
    /\ budget' = [budget EXCEPT !.failures = @ - 1]
    /\ \E p \in publishing :
        /\ p.from = c
        /\ publishing' = publishing \ {p}
    /\ UNCHANGED <<clock, skew, scheduler, mounted, store, historyReq, initTimeout,
                   restartTimeout, effectDeps, channelHistory, inbox,
                   lastRemote, maxStamp>>
    /\ UNCHANGED refVars

\* every event of the system, from the first page load on
Next ==
    \/ Advance
    \/ \E c \in Clients :
        \/ Mount(c)
        \/ Start(c)
        \/ Pause(c)
        \/ Reset(c)
        \/ Restart(c)
        \/ RestartStart(c)
        \/ AddTime(c)
        \/ RemoveTime(c)
        \/ Tick(c)
        \/ Status(c)
        \/ Deliver(c)
        \/ HistoryResponse(c)
        \/ HistoryError(c)
        \/ InitTimeout(c)
        \/ PublishEffect(c)
        \/ PublishResolved(c)
        \/ PublishRejected(c)

Spec == Init /\ [][Next]_vars

\* two connected clients on a channel that does not fail
NextSync ==
    \/ Advance
    \/ \E c \in Clients :
        \/ Start(c)
        \/ Pause(c)
        \/ Reset(c)
        \/ Restart(c)
        \/ RestartStart(c)
        \/ AddTime(c)
        \/ RemoveTime(c)
        \/ Tick(c)
        \/ Deliver(c)
        \/ PublishEffect(c)
        \/ PublishResolved(c)

SpecSync == InitSync /\ [][NextSync]_vars

\* Client 1 loaded its page at T0 with the network down: the history request
\* failed and no status event reports a connection; that was a second ago.
InitLocal ==
    /\ clock = T0 + SecondMs
    /\ skew = [c \in Clients |-> 0]
    /\ scheduler = [c \in Clients |-> Unscheduled]
    /\ mounted = [c \in Clients |-> c = 1]
    /\ store = [c \in Clients |->
                   IF c = 1
                   THEN updateCurrentTime(initialState(T0), clock)
                   ELSE initialState(T0)]
    /\ listenerTimer = [c \in Clients |-> initialState(T0).timer]
    /\ lastPublishedState = [c \in Clients |-> NoState]
    /\ isInitialized = [c \in Clients |-> c = 1]
    /\ hasLoadedHistory = [c \in Clients |-> c = 1]
    /\ historyReq = [c \in Clients |-> IF c = 1 THEN "done" ELSE "idle"]
    /\ initTimeout = [c \in Clients |-> FALSE]
    /\ restartTimeout = [c \in Clients |-> FALSE]
    /\ effectDeps = [c \in Clients |-> publishDeps(store[c])]
    /\ publishing = {}
    /\ channelHistory = NoState
    /\ inbox = [c \in Clients |-> {}]
    /\ budget = [advances |-> LocalAdvances, commands |-> LocalCommands,
                 publishes |-> 0, dups |-> 0, status |-> 0, failures |-> 0]
    /\ lastRemote = [c \in Clients |-> NoState]
    /\ maxStamp = 0

\* the wall clock runs on while a timer is running towards its end
RunOn ==
    /\ Quiet
    /\ budget.advances = 0
    /\ \A c \in Clients : mounted[c] => Ticked(c)
    /\ \E c \in Clients : /\ mounted[c]
                          /\ store[c].timer.isRunning
                          /\ Now(c) < store[c].timer.endTime
    /\ clock' = clock + DefaultMinutes * MinuteMs
    /\ UNCHANGED <<skew, scheduler, mounted, store, historyReq, initTimeout,
                   restartTimeout, effectDeps, budget, lastRemote>>
    /\ UNCHANGED refVars
    /\ UNCHANGED channelVars

\* the passing of time
Elapse == Advance \/ RunOn

\* one client off the network
NextLocal ==
    \/ Advance
    \/ RunOn
    \/ \E c \in Clients :
        \/ Start(c)
        \/ Pause(c)
        \/ Reset(c)
        \/ Restart(c)
        \/ RestartStart(c)
        \/ AddTime(c)
        \/ RemoveTime(c)
        \/ Tick(c)
        \/ PublishEffect(c)

\* time passes, the scheduler's wake-ups fire, renders run their effects and
\* zero-delay timeouts run
SpecLocal ==
    /\ InitLocal
    /\ [][NextLocal]_vars
    /\ WF_vars(Elapse)
    /\ \A c \in Clients :
        /\ WF_vars(Tick(c))
        /\ WF_vars(PublishEffect(c))
        /\ WF_vars(RestartStart(c))

\* times before and after now that an endTime or a paused remaining time is
\* drawn from: whole and broken seconds around 0:00, 0:01 and 1:00
ViewMs == {0, 1, SecondMs - 1, SecondMs, MinuteMs - 1, MinuteMs}

\* the raw fields of the timers the component is rendered with
ViewTimers ==
    [durationMs : {MinuteMs, DefaultMinutes * MinuteMs},
     startTime : {NULL, T0},
     endTime : {NULL, T0} \cup {T0 + SecondMs + x : x \in ViewMs},
     isRunning : BOOLEAN,
     pausedRemainingMs : {UNDEFINED, NULL} \cup ViewMs,
     lastUpdated : {T0}]

\* Client 1's store holds a timer drawn from ViewTimers, with the flags that
\* calculateComputedState gives it; the client is off the network.
InitView ==
    /\ clock = T0 + SecondMs
    /\ skew = [c \in Clients |-> 0]
    /\ scheduler = [c \in Clients |-> Unscheduled]
    /\ mounted = [c \in Clients |-> c = 1]
    /\ \E t \in ViewTimers :
          store = [c \in Clients |->
                      IF c = 1
                      THEN syncTimerState(
                               updateCurrentTime(initialState(T0), clock), t)
                      ELSE initialState(T0)]
    /\ listenerTimer = [c \in Clients |-> initialState(T0).timer]
    /\ lastPublishedState = [c \in Clients |-> NoState]
    /\ isInitialized = [c \in Clients |-> c = 1]
    /\ hasLoadedHistory = [c \in Clients |-> c = 1]
    /\ historyReq = [c \in Clients |-> IF c = 1 THEN "done" ELSE "idle"]
    /\ initTimeout = [c \in Clients |-> FALSE]
    /\ restartTimeout = [c \in Clients |-> FALSE]
    /\ effectDeps = [c \in Clients |-> publishDeps(store[c])]
    /\ publishing = {}
    /\ channelHistory = NoState
    /\ inbox = [c \in Clients |-> {}]
    /\ budget = [advances |-> ViewAdvances, commands |-> 0,
                 publishes |-> 0, dups |-> 0, status |-> 0, failures |-> 0]
    /\ lastRemote = [c \in Clients |-> NoState]
    /\ maxStamp = 0

\* the clock advances and the scheduler's wake-ups re-render the component
NextView ==
    \/ Advance
    \/ \E c \in Clients : Tick(c)

SpecView == InitView /\ [][NextView]_vars

\* Nobody has opened the page yet and nothing was ever published on the channel.
InitLink ==
    /\ clock = T0
    /\ skew = [c \in Clients |-> 0]
    /\ scheduler = [c \in Clients |-> Unscheduled]
    /\ mounted = [c \in Clients |-> FALSE]
    /\ store = [c \in Clients |-> initialState(T0)]
    /\ listenerTimer = [c \in Clients |-> initialState(T0).timer]
    /\ lastPublishedState = [c \in Clients |-> NoState]
    /\ isInitialized = [c \in Clients |-> FALSE]
    /\ hasLoadedHistory = [c \in Clients |-> FALSE]
    /\ historyReq = [c \in Clients |-> "idle"]
    /\ initTimeout = [c \in Clients |-> FALSE]
    /\ restartTimeout = [c \in Clients |-> FALSE]
    /\ effectDeps = [c \in Clients |-> publishDeps(store[c])]
    /\ publishing = {}
    /\ channelHistory = NoState
    /\ inbox = [c \in Clients |-> {}]
    /\ budget = [advances |-> LinkAdvances, commands |-> LinkCommands,
                 publishes |-> LinkPublishes, dups |-> 0,
                 status |-> LinkStatus, failures |-> LinkFailures]
    /\ lastRemote = [c \in Clients |-> NoState]
    /\ maxStamp = 0

\* the first client opens the page and uses the timer while the channel
\* connects, disconnects, answers and fails
NextLink ==
    \/ Advance
    \/ Mount(1)
    \/ \E c \in Clients :
        \/ Start(c)
        \/ Pause(c)
        \/ Reset(c)
        \/ Restart(c)
        \/ RestartStart(c)
        \/ AddTime(c)
        \/ RemoveTime(c)
        \/ Tick(c)
        \/ Status(c)
        \/ Deliver(c)
        \/ HistoryResponse(c)
        \/ HistoryError(c)
        \/ PublishEffect(c)
        \/ PublishResolved(c)
        \/ PublishRejected(c)

\* renders run their effects, the scheduler's wake-ups fire, zero-delay
\* timeouts run and requests to the channel are answered
SpecLink ==
    /\ InitLink
    /\ [][NextLink]_vars
    /\ \A c \in Clients :
        /\ WF_vars(PublishEffect(c))
        /\ WF_vars(Tick(c))
        /\ WF_vars(RestartStart(c))
        /\ WF_vars(HistoryResponse(c) \/ HistoryError(c))
        /\ WF_vars(PublishResolved(c) \/ PublishRejected(c))

\* One client, connected and initialised (Init), uses Start, Pause and Restart
\* while its own publishes come back on the channel; the user presses nothing
\* during the zero-delay timeout of handleRestart.
InitRestart ==
    /\ clock = T0 + SecondMs
    /\ skew = [c \in Clients |-> 0]
    /\ scheduler = [c \in Clients |-> Unscheduled]
    /\ mounted = [c \in Clients |-> c = 1]
    /\ store = [c \in Clients |->
                   IF c = 1
                   THEN updateCurrentTime(setConnected(initialState(T0), TRUE),
                                          clock)
                   ELSE initialState(T0)]
    /\ listenerTimer = [c \in Clients |-> initialState(T0).timer]
    /\ lastPublishedState = [c \in Clients |-> NoState]
    /\ isInitialized = [c \in Clients |-> c = 1]
    /\ hasLoadedHistory = [c \in Clients |-> c = 1]
    /\ historyReq = [c \in Clients |-> IF c = 1 THEN "done" ELSE "idle"]
    /\ initTimeout = [c \in Clients |-> FALSE]
    /\ restartTimeout = [c \in Clients |-> FALSE]
    /\ effectDeps = [c \in Clients |-> publishDeps(store[c])]
    /\ publishing = {}
    /\ channelHistory = NoState
    /\ inbox = [c \in Clients |-> {}]
    /\ budget = [advances |-> RestartAdvances, commands |-> RestartCommands,
                 publishes |-> RestartPublishes, dups |-> 0,
                 status |-> 0, failures |-> 0]
    /\ lastRemote = [c \in Clients |-> NoState]
    /\ maxStamp = 0

NextRestart ==
    \/ Advance
    \/ (~restartTimeout[1] /\ Start(1))
    \/ (~restartTimeout[1] /\ Pause(1))
    \/ (~restartTimeout[1] /\ Restart(1))
    \/ RestartStart(1)
    \/ Tick(1)
    \/ Deliver(1)
    \/ PublishEffect(1)
    \/ PublishResolved(1)

SpecRestart == InitRestart /\ [][NextRestart]_vars

\* ------------------------------------------------ the scheduler, step by step

\* the dependencies of the scheduling effect that can change
schedulerDeps(c) == <<store[c].timer.isRunning, store[c].timer.endTime>>

\* the store after the updateCurrentTime(now) of scheduleNextUpdate
Scheduled(c, now) ==
    /\ store' = [store EXCEPT ![c] = updateCurrentTime(store[c], now)]
    /\ lastRemote' = [lastRemote EXCEPT
           ![c] = IF stateToPublish(updateCurrentTime(store[c], now).timer)
                     = stateToPublish(store[c].timer)
                  THEN @ ELSE NoState]

\* a render changed timer.isRunning or timer.endTime: the scheduling effect is
\* cleaned up and runs again, with a closure over the new timer
SchedulerEffect(c) ==
    /\ mounted[c]
    /\ schedulerDeps(c) # <<scheduler[c].isRunning, scheduler[c].endTime>>
    /\ Scheduled(c, Now(c))
    /\ scheduler' = [scheduler EXCEPT
           ![c] = arm(cleanup(@), store[c].timer.isRunning,
                      store[c].timer.endTime, Now(c))]
    /\ UNCHANGED <<clock, skew, mounted, historyReq, initTimeout,
                   restartTimeout, effectDeps, budget>>
    /\ UNCHANGED refVars
    /\ UNCHANGED channelVars

\* the pending wake-up fires, on time or LateMs late, and scheduleNextUpdate
\* runs with the closure of the effect's last run.  Time passes only once the
\* renders so far have run their effects.
Wake(c) ==
    /\ mounted[c]
    /\ scheduler[c].pending > 0
    /\ \E late \in {0, LateMs} :
        /\ late > 0 => budget.advances > 0
        /\ budget' = [budget EXCEPT
               !.advances = IF late > 0 THEN @ - 1 ELSE @]
        /\ clock' = Max(clock, scheduler[c].due - skew[c] + late)
    /\ clock' > clock
          => /\ Quiet
             /\ schedulerDeps(c)
                   = <<scheduler[c].isRunning, scheduler[c].endTime>>
    /\ clock' <= T0 + DefaultMinutes * MinuteMs + SchedAfterMs
    /\ Scheduled(c, clock' + skew[c])
    /\ scheduler' = [scheduler EXCEPT
           ![c] = arm([@ EXCEPT !.pending = @ - 1], scheduler[c].isRunning,
                      scheduler[c].endTime, clock' + skew[c])]
    /\ UNCHANGED <<skew, mounted, historyReq, initTimeout, restartTimeout,
                   effectDeps>>
    /\ UNCHANGED refVars
    /\ UNCHANGED channelVars

\* the component is torn down: the cleanups of the init effect (removeListener,
\* unsubscribe) and of the scheduling effect run
Teardown(c) ==
    /\ mounted[c]
    /\ Quiet
    /\ mounted' = [mounted EXCEPT ![c] = FALSE]
    /\ scheduler' = [scheduler EXCEPT
           ![c] = [cleanup(@) EXCEPT !.listening = FALSE]]
    /\ UNCHANGED <<clock, skew, store, historyReq, initTimeout,
                   restartTimeout, effectDeps, budget, lastRemote>>
    /\ UNCHANGED refVars
    /\ UNCHANGED channelVars

\* The first client loaded the page at T0, off the network, and pressed Start
\* at once; the wake-ups have fired on time since, and SchedLeftMs are left of
\* the default five minutes.
InitSched ==
    /\ clock = T0 + DefaultMinutes * MinuteMs - SchedLeftMs
    /\ skew = [c \in Clients |-> 0]
    /\ mounted = [c \in Clients |-> c = 1]
    /\ store = [c \in Clients |->
                   IF c = 1
                   THEN updateCurrentTime(startTimer(initialState(T0), T0),
                                          clock)
                   ELSE initialState(T0)]
    /\ scheduler = [c \in Clients |->
                   IF c = 1
                   THEN arm([Unscheduled EXCEPT !.listening = TRUE],
                            store[c].timer.isRunning, store[c].timer.endTime,
                            clock)
                   ELSE Unscheduled]
    /\ listenerTimer = [c \in Clients |-> initialState(T0).timer]
    /\ lastPublishedState = [c \in Clients |-> NoState]
    /\ isInitialized = [c \in Clients |-> c = 1]
    /\ hasLoadedHistory = [c \in Clients |-> c = 1]
    /\ historyReq = [c \in Clients |-> IF c = 1 THEN "done" ELSE "idle"]
    /\ initTimeout = [c \in Clients |-> FALSE]
    /\ restartTimeout = [c \in Clients |-> FALSE]
    /\ effectDeps = [c \in Clients |-> publishDeps(store[c])]
    /\ publishing = {}
    /\ channelHistory = NoState
    /\ inbox = [c \in Clients |-> {}]
    /\ budget = [advances |-> SchedLate, commands |-> SchedCommands,
                 publishes |-> 0, dups |-> 0, status |-> 0, failures |-> 0]
    /\ lastRemote = [c \in Clients |-> NoState]
    /\ maxStamp = 0

NextSched ==
    \E c \in Clients :
        \/ Start(c)
        \/ Pause(c)
        \/ Reset(c)
        \/ Restart(c)
        \/ RestartStart(c)
        \/ AddTime(c)
        \/ RemoveTime(c)
        \/ PublishEffect(c)
        \/ SchedulerEffect(c)
        \/ Wake(c)
        \/ Teardown(c)

SpecSched == InitSched /\ [][NextSched]_vars

\* ------------------------------------------------------------ the properties

\* the raw fields of client c's timer, as they travel on the channel
Raw(c) == stateToPublish(store[c].timer)

\* a transition of client c's store made by a command or by the scheduler
LocalTransition(c) ==
    \/ Start(c)
    \/ Pause(c)
    \/ Reset(c)
    \/ Restart(c)
    \/ RestartStart(c)
    \/ AddTime(c)
    \/ RemoveTime(c)
    \/ Tick(c)

\* nothing is in flight and nothing is pending on any client
Quiescent ==
    /\ Quiet
    /\ publishing = {}
    /\ \A c \in Clients :
        /\ inbox[c] = {}
        /\ ~initTimeout[c]
        /\ ~restartTimeout[c]
        /\ mounted[c] => Ticked(c)

\* C1: a snapshot the listener delivers whose lastUpdated is below the
\* lastUpdated the store holds at that moment (the out-of-order case) leaves
\* the timer as it was.
C1_OlderSnapshotIgnored ==
    [][\A c \in Clients : \A m \in inbox[c] : \A keep \in BOOLEAN :
          DeliverMsg(c, m, keep) /\ m.lastUpdated < store[c].timer.lastUpdated
              => store'[c].timer = store[c].timer]_vars

\* C2: no client publishes a snapshot that it holds because it applied that
\* very snapshot from the channel.
C2_NoEcho == \A p \in publishing : ~p.echo

\* C3: delivering to a client a snapshot it has just applied, or whose raw
\* fields it already holds, changes neither a raw field nor a derived flag.
C3_SecondDeliveryNoOp ==
    [][\A c \in Clients : \A m \in inbox[c] : \A keep \in BOOLEAN :
          DeliverMsg(c, m, keep) /\ (lastRemote[c] = m \/ Raw(c) = m)
              => store'[c] = store[c]]_vars

\* C3 witness: a client holds a snapshot it applied from the channel, and the
\* channel is about to deliver that snapshot to it once more.
C3_Witness ==
    \E c \in Clients :
        /\ lastRemote[c] # NoState
        /\ Raw(c) = lastRemote[c]
        /\ lastRemote[c] \in inbox[c]

\* C4: once commands have stopped and every published snapshot has been
\* delivered, both clients hold the same raw fields, those of the snapshot
\* with the greatest lastUpdated.
C4_Converged ==
    Quiescent /\ maxStamp > 0
        => /\ Raw(1) = Raw(2)
           /\ Raw(1).lastUpdated = maxStamp

C6_HistoryRespectsRecency ==
    [][\A c \in Clients :
          (/\ HistoryResponse(c)
           /\ channelHistory # NoState
           /\ lastRemote[c] = NoState
           /\ Raw(c) # stateToPublish(listenerTimer[c])
           /\ store[c].timer.lastUpdated > channelHistory.lastUpdated)
          => store'[c].timer = store[c].timer]_vars

\* C7: lastUpdated of a client's store never decreases.
C7_LastUpdatedMonotone ==
    [][\A c \in Clients :
          store'[c].timer.lastUpdated >= store[c].timer.lastUpdated]_vars

\* C8: a local transition that changes a raw field leaves lastUpdated strictly
\* greater than it was.
C8_StrictlyIncreasing ==
    [][\A c \in Clients :
          LocalTransition(c)
          /\ stateToPublish(store'[c].timer) # stateToPublish(store[c].timer)
          => store'[c].timer.lastUpdated > store[c].timer.lastUpdated]_vars

\* C9: in every state a timer is not both running and paused, is complete only
\* when not running, and at most one of running, pausedRemainingMs present and
\* complete holds.
C9_MutualExclusion ==
    \A c \in Clients :
        LET t == store[c].timer
            present == t.pausedRemainingMs # UNDEFINED
                       /\ t.pausedRemainingMs # NULL
        IN /\ ~(t.isRunning /\ t.isPaused)
           /\ t.isComplete => ~t.isRunning
           /\ ~(t.isRunning /\ present)
           /\ ~(t.isRunning /\ t.isComplete)
           /\ ~(present /\ t.isComplete)

\* C9 witness: a client holds, through a sync, a running snapshot whose end
\* its own clock has passed.
C9_Witness ==
    \E c \in Clients :
        /\ lastRemote[c] # NoState
        /\ store[c].timer.isRunning
        /\ store[c].ui.currentTime >= store[c].timer.endTime

\* C10: a sync that applies a peer's running snapshot whose endTime is at or
\* before the client's clock, the client's scheduler being up to date, leaves
\* the timer not running and complete.
C10_ExpiredSnapshotCompletes ==
    [][\A c \in Clients : \A m \in inbox[c] : \A keep \in BOOLEAN :
          (/\ DeliverMsg(c, m, keep)
           /\ isNewer(listenerTimer[c], m)
           /\ Raw(c) # m
           /\ Ticked(c)
           /\ m.isRunning
           /\ m.endTime <= Now(c))
          => ~store'[c].timer.isRunning /\ store'[c].timer.isComplete]_vars

\* C11: a tick of the scheduler on a running timer whose end has been reached
\* stops the timer and keeps the run's startTime and endTime and the duration;
\* the stopped timer is complete and not paused.
C11_ExpiryTick ==
    [][\A c \in Clients :
          (/\ Tick(c)
           /\ store[c].timer.isRunning
           /\ Truthy(store[c].timer.endTime)
           /\ Now(c) >= store[c].timer.endTime)
          => /\ ~store'[c].timer.isRunning
             /\ store'[c].timer.startTime = store[c].timer.startTime
             /\ store'[c].timer.endTime = store[c].timer.endTime
             /\ store'[c].timer.durationMs = store[c].timer.durationMs
             /\ store'[c].timer.isComplete
             /\ ~store'[c].timer.isPaused]_vars

\* C11 witness: a timer the scheduler has just stopped at its end
C11_Witness ==
    \E c \in Clients :
        /\ mounted[c]
        /\ ~store[c].timer.isRunning
        /\ store[c].timer.isComplete
        /\ Truthy(store[c].timer.endTime)
        /\ store[c].timer.lastUpdated = store[c].ui.currentTime
        /\ store[c].timer.lastUpdated >= store[c].timer.endTime

\* C12: a running timer that receives no further command (and, off the
\* network, no remote snapshot) is eventually stopped and complete, given
\* that the clock advances and the scheduler's wake-ups fire.
C12_ExpiryEventually ==
    \A c \in Clients :
        (/\ mounted[c]
         /\ store[c].timer.isRunning
         /\ budget.commands = 0
         /\ ~restartTimeout[c])
        ~> (~store[c].timer.isRunning /\ store[c].timer.isComplete)

\* C12 witness: after the last command the clock ran on to the end of the
\* run and the scheduler stopped the timer
C12_Witness ==
    \E c \in Clients :
        /\ mounted[c]
        /\ budget.commands = 0
        /\ budget.advances = 0
        /\ ~store[c].timer.isRunning
        /\ store[c].timer.isComplete
        /\ store[c].timer.lastUpdated = store[c].ui.currentTime
        /\ store[c].timer.lastUpdated > store[c].timer.endTime
        /\ store[c].timer.endTime > store[c].timer.startTime

\* C13: the duration of every client is at least one minute in every reachable
\* state (commands with the minutes of the buttons, ticks, applied snapshots),
\* and removeTime, with either button's minutes, leaves at least one minute.
C13_DurationFloor ==
    \A c \in Clients :
        /\ store[c].timer.durationMs >= MinuteMs
        /\ \A m \in ButtonMinutes :
              removeTime(store[c], m, Now(c)).timer.durationMs >= MinuteMs

\* C13 witness: a client took over a peer's snapshot with a duration of one
\* minute, where removeTime has nothing left to take
C13_Witness ==
    \E c \in Clients :
        /\ mounted[c]
        /\ lastRemote[c] # NoState
        /\ lastRemote[c].durationMs = MinuteMs
        /\ store[c].timer.durationMs = MinuteMs
        /\ store[c].timer.durationMs - MinuteMs < MinuteMs
        /\ removeTime(store[c], 1, Now(c)).timer.durationMs = MinuteMs

\* C14: removeTime on a running timer never moves the end later, and the end
\* either stays where it was or is at least one second after the command.
C14_RunningEndClamped ==
    [][\A c \in Clients :
          (/\ RemoveTime(c)
           /\ store[c].timer.isRunning
           /\ Truthy(store[c].timer.startTime)
           /\ Truthy(store[c].timer.endTime))
          => /\ store'[c].timer.endTime <= store[c].timer.endTime
             /\ \/ store'[c].timer.endTime = store[c].timer.endTime
                \/ store'[c].timer.endTime >= Now(c) + SecondMs]_vars

\* C14 witness: a running timer whose end was brought forward to exactly one
\* second after the command, less than the button's minutes before the end
\* that the run started with
C14_Witness ==
    \E c \in Clients :
        /\ mounted[c]
        /\ store[c].timer.isRunning
        /\ store[c].timer.endTime = store[c].timer.lastUpdated + SecondMs
        /\ store[c].timer.lastUpdated > store[c].timer.startTime
        /\ store[c].timer.endTime - store[c].timer.startTime
              > store[c].timer.durationMs

\* C15: addTime with m minutes on a running timer adds exactly m minutes to
\* the duration and to the end, leaves the start alone and the timer running.
C15_AddTimeRunning ==
    [][\A c \in Clients :
          (AddTime(c) /\ store[c].timer.isRunning)
          => \E m \in ButtonMinutes :
                /\ store'[c].timer.durationMs
                      = store[c].timer.durationMs + m * MinuteMs
                /\ store'[c].timer.endTime
                      = store[c].timer.endTime + m * MinuteMs
                /\ store'[c].timer.startTime = store[c].timer.startTime
                /\ store'[c].timer.isRunning]_vars

\* C15 witness: a timer started at the default duration and extended to the
\* longest duration while it ran
C15_Witness ==
    \E c \in Clients :
        /\ mounted[c]
        /\ store[c].timer.isRunning
        /\ store[c].timer.durationMs = MaxMinutes * MinuteMs
        /\ store[c].timer.endTime - store[c].timer.startTime
              = store[c].timer.durationMs
        /\ store[c].timer.lastUpdated > store[c].timer.startTime

\* waits between the commands of a start / pause / start sequence
Waits == {0} \cup Deltas

\* C16: start, wait d, pause, wait e, start again, from every reachable state
\* where the Start button can be pressed and with or without the scheduler's
\* ticks during the waits: the end after the second start is the time of the
\* second start plus what remained at the pause, and the duration is the same
\* after every command.
C16_RoundTrip ==
    \A c \in Clients : \A d \in Waits : \A e \in Waits : \A ticking \in BOOLEAN :
        LET now == Now(c)
            started == startTimer(store[c], now)
            atPause == IF ticking
                       THEN updateCurrentTime(started, now + d)
                       ELSE started
            remaining == Max(0, started.timer.endTime - (now + d))
            paused == pauseTimer(atPause, now + d)
            atResume == IF ticking
                        THEN updateCurrentTime(paused, now + d + e)
                        ELSE paused
            resumed == startTimer(atResume, now + d + e)
        IN (/\ mounted[c]
            /\ ~store[c].timer.isComplete
            /\ ~store[c].timer.isRunning
            /\ remainingSeconds(store[c].timer, now) # 0
            /\ atPause.timer.isRunning
            /\ ~atPause.timer.isComplete
            /\ ~atResume.timer.isComplete
            /\ ~atResume.timer.isRunning
            /\ remainingSeconds(atResume.timer, now + d + e) # 0)
           => /\ resumed.timer.endTime = now + d + e + remaining
              /\ started.timer.durationMs = store[c].timer.durationMs
              /\ paused.timer.durationMs = store[c].timer.durationMs
              /\ resumed.timer.durationMs = store[c].timer.durationMs

\* C16 witness: a timer that ran for a while, was paused and has just been
\* started again for what remained
C16_Witness ==
    \E c \in Clients :
        /\ mounted[c]
        /\ store[c].timer.isRunning
        /\ store[c].timer.lastUpdated = store[c].timer.startTime
        /\ store[c].timer.endTime - store[c].timer.startTime
              < store[c].timer.durationMs
        /\ store[c].timer.startTime > T0 + SecondMs

\* C17: startTimer (the Start button and the deferred start of Restart) sets
\* startTime to now, endTime to now plus the paused remaining time if the
\* timer is paused and now plus the duration otherwise, sets isRunning, clears
\* pausedRemainingMs and leaves the duration unchanged.
C17_StartTimer ==
    [][\A c \in Clients :
          (Start(c) \/ RestartStart(c))
          => LET timeToRun == IF store[c].timer.isPaused
                              THEN store[c].timer.pausedRemainingMs
                              ELSE store[c].timer.durationMs
             IN /\ store'[c].timer.startTime = Now(c)
                /\ store'[c].timer.endTime = Now(c) + timeToRun
                /\ store'[c].timer.isRunning
                /\ store'[c].timer.pausedRemainingMs = UNDEFINED
                /\ store'[c].timer.durationMs = store[c].timer.durationMs]_vars

\* C17 witness: a timer just started from a pause, for less than its duration
C17_Witness ==
    \E c \in Clients :
        /\ mounted[c]
        /\ store[c].timer.isRunning
        /\ ~store[c].timer.isPaused
        /\ store[c].timer.pausedRemainingMs = UNDEFINED
        /\ store[c].timer.startTime = Now(c)
        /\ store[c].timer.lastUpdated = store[c].timer.startTime
        /\ store[c].timer.endTime < store[c].timer.startTime
                                       + store[c].timer.durationMs

\* C18: pauseTimer on a running timer stores max(0, endTime - now) as
\* pausedRemainingMs, clears startTime and endTime, stops the timer and leaves
\* the duration unchanged; the timer is then paused and not complete.
C18_PauseTimer ==
    [][\A c \in Clients :
          (Pause(c) /\ store[c].timer.isRunning)
          => /\ store'[c].timer.pausedRemainingMs
                   = Max(0, store[c].timer.endTime - Now(c))
             /\ store'[c].timer.startTime = NULL
             /\ store'[c].timer.endTime = NULL
             /\ ~store'[c].timer.isRunning
             /\ store'[c].timer.durationMs = store[c].timer.durationMs
             /\ store'[c].timer.isPaused
             /\ ~store'[c].timer.isComplete]_vars

\* C18 witness: a timer paused after it ran for a while, with less than its
\* duration left
C18_Witness ==
    \E c \in Clients :
        /\ mounted[c]
        /\ store[c].timer.isPaused
        /\ ~store[c].timer.isRunning
        /\ store[c].timer.startTime = NULL
        /\ store[c].timer.pausedRemainingMs > 0
        /\ store[c].timer.pausedRemainingMs < store[c].timer.durationMs
        /\ store[c].timer.lastUpdated = Now(c)

\* C19: resetTimer with m minutes (Reset with the initial minutes, Restart with
\* the minutes of the current duration) leaves, from every state, a duration
\* of m minutes, no start and no end, a timer that is not running, no paused
\* remaining time and both flags false.
C19_ResetTimer ==
    [][\A c \in Clients :
          (Reset(c) \/ Restart(c))
          => /\ store'[c].timer.durationMs
                   = (IF Reset(c) THEN DefaultMinutes
                      ELSE store[c].timer.durationMs \div MinuteMs) * MinuteMs
             /\ store'[c].timer.startTime = NULL
             /\ store'[c].timer.endTime = NULL
             /\ ~store'[c].timer.isRunning
             /\ store'[c].timer.pausedRemainingMs = UNDEFINED
             /\ ~store'[c].timer.isComplete
             /\ ~store'[c].timer.isPaused]_vars

\* C19 witness: a completed timer has just been reset by Restart, whose
\* deferred start has not run yet
C19_Witness ==
    \E c \in Clients :
        /\ mounted[c]
        /\ restartTimeout[c]
        /\ ~store[c].timer.isRunning
        /\ store[c].timer.startTime = NULL
        /\ store[c].timer.endTime = NULL
        /\ store[c].timer.lastUpdated = Now(c)
        /\ store[c].timer.lastUpdated > T0 + DefaultMinutes * MinuteMs

\* the raw fields of a timer that ran to its end, at the time now
ranOut(timer, now) ==
    /\ ~timer.isRunning
    /\ Truthy(timer.startTime)
    /\ Truthy(timer.endTime)
    /\ now >= timer.endTime

\* a timer that has not been started and remembers no pause
idle(timer) ==
    /\ timer.startTime = NULL
    /\ timer.endTime = NULL
    /\ ~timer.isRunning
    /\ timer.pausedRemainingMs = UNDEFINED
    /\ ~timer.isComplete

\* C20: addTime or removeTime, with the minutes of the buttons, on a timer
\* that ran to its end (not running, startTime and endTime set, now >= endTime)
\* clears startTime and endTime, keeps the timer stopped with no paused
\* remaining time, and leaves it idle and not complete.
C20_AdjustCompleted ==
    \A c \in Clients : \A m \in ButtonMinutes :
        (mounted[c] /\ ranOut(store[c].timer, Now(c)))
        => /\ idle(addTime(store[c], m, Now(c)).timer)
           /\ idle(removeTime(store[c], m, Now(c)).timer)

\* C21: on a paused timer addTime with m minutes adds exactly m minutes to
\* pausedRemainingMs and removeTime with m minutes leaves
\* max(60000, pausedRemainingMs - m minutes); either way the timer stays
\* paused with no startTime and no endTime.
C21_AdjustPaused ==
    [][\A c \in Clients :
          /\ (AddTime(c) /\ store[c].timer.isPaused)
             => /\ \E m \in ButtonMinutes :
                      /\ store'[c].timer.durationMs
                            = store[c].timer.durationMs + m * MinuteMs
                      /\ store'[c].timer.pausedRemainingMs
                            = store[c].timer.pausedRemainingMs + m * MinuteMs
                /\ store'[c].timer.isPaused
                /\ store'[c].timer.startTime = NULL
                /\ store'[c].timer.endTime = NULL
          /\ (RemoveTime(c) /\ store[c].timer.isPaused)
             => /\ \E m \in ButtonMinutes :
                      /\ store'[c].timer.durationMs
                            = Max(MinuteMs,
                                  store[c].timer.durationMs - m * MinuteMs)
                      /\ store'[c].timer.pausedRemainingMs
                            = Max(MinuteMs,
                                  store[c].timer.pausedRemainingMs - m * MinuteMs)
                /\ store'[c].timer.isPaused
                /\ store'[c].timer.startTime = NULL
                /\ store'[c].timer.endTime = NULL]_vars

\* C21 witness: a paused timer whose remaining time has been adjusted while
\* it was paused: it no longer differs from the duration by a time that the
\* timer can have run before the pause
C21_Witness ==
    \E c \in Clients :
        /\ mounted[c]
        /\ store[c].timer.isPaused
        /\ store[c].timer.startTime = NULL
        /\ store[c].timer.endTime = NULL
        /\ store[c].timer.pausedRemainingMs = MinuteMs
        /\ store[c].timer.durationMs > MinuteMs
        /\ store[c].timer.lastUpdated = Now(c)

\* a paused remaining time is stored in the timer
pausePresent(timer) ==
    timer.pausedRemainingMs # UNDEFINED /\ timer.pausedRemainingMs # NULL

\* C22: the remaining time shown is max(0, endTime - now) if the timer is
\* running with an endTime; otherwise the stored pausedRemainingMs if there is
\* one; otherwise 0 if the timer is complete; otherwise the duration.
C22_RemainingOrder ==
    \A c \in Clients :
        LET timer == store[c].timer
            running == timer.isRunning /\ Truthy(timer.endTime)
            shown == remainingMs(timer, Now(c))
        IN /\ running => shown = Max(0, timer.endTime - Now(c))
           /\ (~running /\ pausePresent(timer))
                 => shown = timer.pausedRemainingMs
           /\ (~running /\ ~pausePresent(timer) /\ timer.isComplete)
                 => shown = 0
           /\ (~running /\ ~pausePresent(timer) /\ ~timer.isComplete)
                 => shown = timer.durationMs

\* C22 witness: a timer that is complete and stores a paused remaining time,
\* shown with the stored time and not with 0
C22_Witness ==
    \E c \in Clients :
        /\ mounted[c]
        /\ ~store[c].timer.isRunning
        /\ store[c].timer.isComplete
        /\ pausePresent(store[c].timer)
        /\ store[c].timer.pausedRemainingMs > 0
        /\ remainingMs(store[c].timer, Now(c)) = store[c].timer.pausedRemainingMs

\* C23: the seconds shown are 0 if no time remains and otherwise the
\* remaining milliseconds rounded up to whole seconds, at least 1; so 0 is
\* shown exactly when 0 ms remain (60000 -> 60, 59999 -> 60, 1000 -> 1,
\* 999 -> 1, 1 -> 1, 0 -> 0).
C23_CeilingDisplay ==
    \A c \in Clients :
        LET ms == remainingMs(store[c].timer, Now(c))
            shown == remainingSeconds(store[c].timer, Now(c))
        IN /\ ms <= 0 => shown = 0
           /\ ms > 0 => /\ shown >= 1
                        /\ (shown - 1) * SecondMs < ms
                        /\ ms <= shown * SecondMs
           /\ shown = 0 <=> ms = 0
           /\ ms = MinuteMs => shown = 60
           /\ ms = MinuteMs - 1 => shown = 60
           /\ ms = SecondMs => shown = 1
           /\ ms = SecondMs - 1 => shown = 1
           /\ ms = 1 => shown = 1

\* C23 witness: a running timer with 999 ms left, shown as one second
C23_Witness ==
    \E c \in Clients :
        /\ mounted[c]
        /\ store[c].timer.isRunning
        /\ store[c].timer.endTime - Now(c) = SecondMs - 1
        /\ remainingMs(store[c].timer, Now(c)) = SecondMs - 1
        /\ remainingSeconds(store[c].timer, Now(c)) = 1

\* a raw field of the timer differs from the snapshot last
rawFieldDiffers(last, timer) ==
    \/ last.durationMs # stateToPublish(timer).durationMs
    \/ last.startTime # stateToPublish(timer).startTime
    \/ last.endTime # stateToPublish(timer).endTime
    \/ last.isRunning # stateToPublish(timer).isRunning
    \/ last.pausedRemainingMs # stateToPublish(timer).pausedRemainingMs

\* C24: a run of the publish effect publishes only if the client is connected
\* and a raw field of the store differs from the snapshot this client last
\* published successfully (or it has published none); a run with an unchanged
\* state, as after a reconnect, publishes nothing.
C24_PublishOnlyChanges ==
    [][\A c \in Clients :
          (PublishEffect(c) /\ publishing' # publishing)
          => /\ store[c].ui.isConnected
             /\ \/ lastPublishedState[c] = NoState
                \/ rawFieldDiffers(lastPublishedState[c], store[c].timer)]_vars

\* C25: the snapshot of a client's timer, applied by another client, gives
\* back the sender's pausedRemainingMs: absent is sent as null and comes back
\* absent, a present value, 0 included, comes back unchanged; the receiver is
\* paused exactly if the sender is.
C25_SentinelRoundTrip ==
    \A d \in Clients : \A c \in Clients \ {d} :
        LET sent == stateToPublish(store[d].timer)
            received == syncTimerState(store[c], sent).timer
        IN (mounted[d] /\ mounted[c])
           => /\ store[d].timer.pausedRemainingMs = UNDEFINED
                    => (sent.pausedRemainingMs = NULL
                        /\ received.pausedRemainingMs = UNDEFINED)
              /\ store[d].timer.pausedRemainingMs # UNDEFINED
                    => (sent.pausedRemainingMs = store[d].timer.pausedRemainingMs
                        /\ received.pausedRemainingMs
                              = store[d].timer.pausedRemainingMs)
              /\ received.isPaused = store[d].timer.isPaused

\* C25 witness: a client holds a peer's snapshot of a timer paused with 0 ms
\* remaining, and is paused with 0 ms remaining
C25_Witness ==
    \E c \in Clients :
        /\ mounted[c]
        /\ lastRemote[c] # NoState
        /\ lastRemote[c].pausedRemainingMs = 0
        /\ store[c].timer.pausedRemainingMs = 0
        /\ store[c].timer.isPaused

\* client c has a publish in flight
publishIssued(c) == \E p \in publishing : p.from = c

\* C26: a client whose history request was answered with no message and that
\* is connected, with its default state (no command yet) and nothing published
\* yet, publishes that state, in whichever order the answer and the connected
\* status arrived.
C26_DefaultPublished ==
    \A c \in Clients :
        (/\ mounted[c]
         /\ historyReq[c] = "done"
         /\ isInitialized[c]
         /\ hasLoadedHistory[c]
         /\ store[c].ui.isConnected
         /\ lastPublishedState[c] = NoState
         /\ budget.publishes = LinkPublishes
         /\ budget.commands = LinkCommands
         /\ budget.failures = LinkFailures)
        ~> publishIssued(c)

\* C27: the seconds shown never exceed the total seconds of the duration, so
\* the progress (totalSeconds - remainingSeconds) / totalSeconds * 100 stays
\* between 0 and 100.
C27_ProgressInRange ==
    \A c \in Clients :
        mounted[c]
        => /\ totalSeconds(store[c].timer) > 0
           /\ remainingSeconds(store[c].timer, Now(c)) >= 0
           /\ remainingSeconds(store[c].timer, Now(c))
                 <= totalSeconds(store[c].timer)

\* C28: a failed publish, a failed history request and a status event leave
\* every timer as it was; a failed publish does not advance the record of the
\* last published snapshot and a failed history request enables publishing;
\* so, once something has failed, a run of the publish effect on a connected
\* client whose raw fields differ from that record still publishes.
C28_FailuresHarmless ==
    [][\A c \in Clients :
          /\ PublishRejected(c)
                => /\ store' = store
                   /\ lastPublishedState' = lastPublishedState
          /\ HistoryError(c)
                => /\ store' = store
                   /\ isInitialized'[c]
                   /\ hasLoadedHistory'[c]
          /\ Status(c) => store'[c].timer = store[c].timer
          /\ (/\ PublishEffect(c)
              /\ budget.failures < LinkFailures
              /\ store[c].ui.isConnected
              /\ isInitialized[c]
              /\ hasLoadedHistory[c]
              /\ \/ lastPublishedState[c] = NoState
                 \/ rawFieldDiffers(lastPublishedState[c], store[c].timer))
                => /\ publishIssued(c)'
                   /\ budget'.publishes = budget.publishes - 1]_vars

\* C28 witness: two publishes were issued, none has succeeded, one has failed
\* and the snapshot of the present state is in flight
C28_Witness ==
    \E c \in Clients :
        /\ mounted[c]
        /\ budget.failures = LinkFailures - 1
        /\ budget.publishes = LinkPublishes - 2
        /\ lastPublishedState[c] = NoState
        /\ publishing = {[from |-> c,
                          message |-> stateToPublish(store[c].timer),
                          echo |-> FALSE]}
        /\ store[c].timer.isRunning

\* C29: startTimer is never invoked through the UI when no time remains (Start
\* is disabled at 0:00, a complete timer offers Restart and Reset only), so a
\* running timer always has its end after its start.
C29_RunningHasTime ==
    \A c \in Clients :
        (mounted[c] /\ store[c].timer.isRunning)
        => store[c].timer.endTime > store[c].timer.startTime

\* C30: a stored pausedRemainingMs is never below one minute and never above
\* the time that remained when the timer was paused: no step stores a value
\* under 60000, and no step raises the value a paused timer holds.
C30_PausedRemainingBounds ==
    [][\A c \in Clients :
          (mounted[c] /\ pausePresent(store[c].timer'))
          => /\ store[c].timer.pausedRemainingMs' >= MinuteMs
             /\ pausePresent(store[c].timer)
                   => store[c].timer.pausedRemainingMs'
                         <= store[c].timer.pausedRemainingMs]_vars

\* C31: every wake-up the scheduler arms has a delay of at least 100 ms and at
\* most 1000 ms, and never a delay of 0, also when the closure still sees a
\* running timer whose endTime has passed.
C31_DelayBounds ==
    \A c \in Clients :
        (mounted[c] /\ scheduler[c].pending > 0)
        => /\ scheduler[c].nextUpdateMs >= 100
           /\ scheduler[c].nextUpdateMs <= SecondMs

\* C32: at most one wake-up of the scheduler is pending per client, also when
\* the scheduling effect is created again, and after the teardown of the
\* component no wake-up is pending and the listener and the subscription are
\* released.
C32_OneWakeup ==
    \A c \in Clients :
        /\ scheduler[c].pending <= 1
        /\ ~mounted[c] => /\ scheduler[c].pending = 0
                          /\ ~scheduler[c].listening

\* C32: the component was torn down after the scheduling effect had been
\* created again for a timer that no longer runs
C32_Witness ==
    /\ ~mounted[1]
    /\ scheduler[1].due # NULL
    /\ ~scheduler[1].isRunning
    /\ scheduler[1].pending = 0

\* C33: startTime and endTime are both present or both absent, a running timer
\* has both, and pausedRemainingMs is present exactly when the timer is
\* paused: never while running, never when complete, never right after
\* resetTimer.
C33_FieldsConsistent ==
    \A c \in Clients :
        LET timer == store[c].timer
        IN /\ (timer.startTime = NULL) <=> (timer.endTime = NULL)
           /\ timer.isRunning => (timer.startTime # NULL /\ timer.endTime # NULL)
           /\ pausePresent(timer) <=> timer.isPaused
           /\ pausePresent(timer) => (~timer.isRunning /\ ~timer.isComplete)
           /\ ~pausePresent(resetTimer(store[c], DefaultMinutes, Now(c)).timer)

\* C33: a client has paused its timer: pausedRemainingMs is stored, startTime
\* and endTime are gone; the other client runs the timer it received
C33_Witness ==
    \E c, d \in Clients :
        /\ mounted[c] /\ mounted[d]
        /\ pausePresent(store[c].timer)
        /\ store[c].timer.startTime = NULL
        /\ store[d].timer.isRunning
        /\ store[d].timer.endTime # NULL
        /\ lastRemote[d] # NoState

\* C34: after every action the stored flags are the derived ones, on the raw
\* fields and the store's currentTime: isComplete = not running, startTime and
\* endTime set, currentTime >= endTime; isPaused = not running and
\* pausedRemainingMs present.
C34_FlagsDerived ==
    \A c \in Clients :
        LET timer == store[c].timer
        IN /\ timer.isComplete
                 <=> /\ ~timer.isRunning
                     /\ Truthy(timer.startTime)
                     /\ Truthy(timer.endTime)
                     /\ store[c].ui.currentTime >= timer.endTime
           /\ timer.isPaused <=> (~timer.isRunning /\ pausePresent(timer))

\* C34: a client holds the paused timer a peer published, and its flags say
\* paused
C34_Witness ==
    \E c \in Clients :
        /\ mounted[c]
        /\ lastRemote[c] # NoState
        /\ pausePresent(store[c].timer)
        /\ store[c].timer.isPaused

\* C35: the deferred startTimer of Restart always leaves a running timer that
\* ends one full duration after its start, also when a snapshot or a tick was
\* processed since the reset.
C35_RestartRuns ==
    [][\A c \in Clients :
          (restartTimeout[c] /\ ~restartTimeout'[c])
          => /\ store'[c].timer.isRunning
             /\ store'[c].timer.endTime
                   = store'[c].timer.startTime + store'[c].timer.durationMs]_vars

\* C36: removeTime never increases the remaining time the user sees: in every
\* state in which a - button can be pressed, the remaining time selected
\* after removeTime is at most the one selected before.
C36_RemoveNeverAdds ==
    \A c \in Clients : \A m \in ButtonMinutes :
        (/\ mounted[c]
         /\ ~store[c].timer.isComplete
         /\ totalSeconds(store[c].timer) > m * 60)
        => remainingMs(removeTime(store[c], m, Now(c)).timer, Now(c))
              <= remainingMs(store[c].timer, Now(c))

\* C37: once the clock has reached the endTime of a running timer, the
\* remaining time stays 0 until the timer is started or reset: no other step,
\* addTime and removeTime before the expiring tick included, makes it count
\* down again.
C37_ExpiredStaysExpired ==
    [][\A c \in Clients :
          (/\ mounted[c]
           /\ store[c].timer.isRunning
           /\ Now(c) >= store[c].timer.endTime
           /\ store'[c] # resetTimer(store[c], DefaultMinutes, Now(c))
           /\ store'[c] # startTimer(store[c], Now(c)))
          => remainingMs(store'[c].timer, clock' + skew'[c]) = 0]_vars

\* C38: a command applied on a store that holds an accepted remote snapshot r
\* stamps its result after r: the result's lastUpdated is never below r's (the
\* claim says strictly above), so a peer that holds r accepts it.
C38_CommandAfterSnapshot ==
    [][\A c \in Clients :
          (/\ mounted[c]
           /\ lastRemote[c] # NoState
           /\ budget'.commands < budget.commands
           /\ store'[c] # store[c])
          => store'[c].timer.lastUpdated >= lastRemote[c].lastUpdated]_vars

\* C39: a command applied before the client could publish is not lost: once
\* the client is connected and initialised and holds the result of its own
\* command, unpublished and not running, that state is published, unless a
\* remote snapshot replaces it or the connection drops first.
C39_CommandPublished ==
    \A c \in Clients :
        (/\ mounted[c]
         /\ historyReq[c] = "done"
         /\ isInitialized[c]
         /\ hasLoadedHistory[c]
         /\ store[c].ui.isConnected
         /\ budget.commands = LinkCommands - 1
         /\ ~store[c].timer.isRunning
         /\ Raw(c) # stateToPublish(initialState(T0).timer)
         /\ lastRemote[c] = NoState
         /\ lastPublishedState[c] = NoState
         /\ budget.publishes = LinkPublishes)
        ~> \/ publishIssued(c)
           \/ lastRemote[c] # NoState
           \/ ~store[c].ui.isConnected

====
